---- MODULE Spec2Model ----
(***************************************************************************)
(* Event pipeline of the sia-proto agent: the CPU and memory collectors    *)
(* (agent/src/collectors.rs), the bounded tokio mpsc channel created in    *)
(* agent/src/main.rs, and the analyzer loop with its store hand-over       *)
(* (agent/src/analyzer.rs, agent/src/storage.rs).                          *)
(*                                                                         *)
(* The control plane (agent/src/ipc.rs): the connection handlers with the   *)
(* status, list, show and analyze operations, and the task that refreshes  *)
(* the cached availability of the enrichment collaborator.                 *)
(*                                                                         *)
(* Readings are percentages modelled as integers; the f32 comparisons of   *)
(* the collectors only use >, so integer readings on both sides of each    *)
(* threshold (and exactly on it) cover every branch.                       *)
(***************************************************************************)
EXTENDS Integers, Sequences, FiniteSets, TLC

\* ---- ThresholdsConfig defaults (common/src/config.rs) ----
cpu_warning == 80
cpu_critical == 95
memory_warning == 85
memory_critical == 95
cpu_sustained_count == 2

\* ---- bounds of the model ----
\* event_ring_capacity: the capacity handed to mpsc::channel
Capacity == 2
\* number of collector ticks (of both collectors together) that are followed
MaxTicks == 4
\* collector ticks followed while the control plane is served
MaxIpcTicks == 1
\* control-plane connections open at the same time, next to the pipeline
MaxConns == 1
\* control-plane connections open at the same time, with the pipeline at rest
MaxServed == 2
\* milliseconds the clock is followed for
MaxMillis == 1
\* rows of the stores that list is applied to, and their latest timestamp
MaxRows == 5
MaxTs == 2

\* width in bits at which high_cpu_count is followed. The counter of the code
\* is a u32 (it is compared with cpu_sustained_count: u32); 2^32 is beyond the
\* integers of the model checker, so the counter is followed at this width,
\* with the same arithmetic: high_cpu_count += 1 modulo 2^width.
CounterBits == 3

CounterModulus == 2 ^ CounterBits

Samplers == {"cpu", "mem"}

\* readings the resource accessors may return on a tick
CpuReadings == {80, 85, 95, 97}
MemReadings == {85, 95, 97}

\* placeholder for "no event in hand"
NoEvent == [event_id |-> <<"none", 0>>, ts |-> 0, severity |-> "NONE", type |-> "none",
            suggestion |-> "None", status |-> "none"]

VARIABLES
    metrics,         \* SystemMetrics behind the RwLock
    high_cpu_count,  \* the CPU collector's consecutive-warning counter
    spc,             \* each collector task: "sleep", "send" (awaiting tx.send) or "dead"
    pending,         \* the event a collector is sending
    nticks,          \* loop iterations each collector has started
    created,         \* events each collector has created
    run,             \* length of each collector's current run of warning-band readings
    sent,            \* events accepted into the channel so far
    chan,            \* the mpsc channel's queue
    llm_client,      \* whether start_analyzer was given Some(LlmClient)
    apc,             \* analyzer task: "recv", "enrich", "store" or "stopped"
    cur,             \* the event the analyzer is processing (its `mut event`)
    rcvd,            \* that event as it came out of the channel
    attempted,       \* analyze_event for cur: "no", "ok" or "err"
    db,              \* rows of the events table, in insert order
    dropped,         \* ids of the events whose store_event returned Err
    clock,           \* Utc::now(), in milliseconds since the epoch
    mpc,             \* the main task: "starting" (only where the start is followed),
                     \* "running", or "exited" once main has returned
    conn,            \* the control-plane connections and their handler tasks
    cache,           \* LLM_CONNECTION_CACHE, the cached availability flag
    rpc,             \* the refresher task: "off", "probe" or "tick"
    last_probe,      \* outcome of the latest completed probe ("none" before it)
    interval,        \* the refresher's Interval: <<>> before it is made, then
                     \* <<the instant its next tick is due at>>
    probed           \* the instants the refresher issued its probes at

vars == <<metrics, high_cpu_count, spc, pending, nticks, created, run, sent, chan,
          llm_client, apc, cur, rcvd, attempted, db, dropped,
          clock, mpc, conn, cache, rpc, last_probe, interval, probed>>

samplerVars == <<metrics, high_cpu_count, spc, pending, nticks, created, run, sent>>
analyzerVars == <<llm_client, apc, cur, rcvd, attempted, db, dropped>>
refresherVars == <<cache, rpc, last_probe, interval, probed>>
\* what the pipeline tasks leave alone
\* the wall clock and the main task
mainVars == <<clock, mpc>>
ipcVars == <<mainVars, conn, refresherVars>>
\* the pipeline as a whole
pipelineVars == <<samplerVars, chan, analyzerVars>>

\* ---- collectors.rs ----

\* create_cpu_event: a fresh Event with suggestion None and status "open".
\* The id is "cpu_<millis>", millis being Utc::now().timestamp_millis() at
\* creation; ts is Utc::now() too and reaches the store in whole seconds.
create_cpu_event(severity, millis) ==
    [event_id |-> <<"cpu", millis>>, ts |-> clock \div 1000, severity |-> severity,
     type |-> "cpu_high", suggestion |-> "None", status |-> "open"]

\* Faulty variant of create_memory_event (mutation for C31): the event is
\* created with a suggestion already in it.
create_memory_event_Suggested(severity, millis) ==
    [event_id |-> <<"mem", millis>>, ts |-> clock \div 1000, severity |-> severity,
     type |-> "memory_high", suggestion |-> "Some", status |-> "open"]

\* create_memory_event
create_memory_event(severity, millis) ==
    [event_id |-> <<"mem", millis>>, ts |-> clock \div 1000, severity |-> severity,
     type |-> "memory_high", suggestion |-> "None", status |-> "open"]
\* Faulty variant of CpuSeverity (mutation for C5): a WARNING on every warning-band
\* reading, without waiting for the counter.
CpuSeverity_NoSustain(v, count) ==
    IF v > cpu_critical THEN "CRITICAL"
    ELSE IF v > cpu_warning THEN "WARNING" ELSE "NONE"

\* The CPU collector's threshold branch for reading v:
\* the severity to emit ("NONE" for no event) and the counter after the branch,
\* before any send. The critical branch resets the counter only after its send.
CpuSeverity(v, count) ==
    IF v > cpu_critical THEN "CRITICAL"
    ELSE IF v > cpu_warning
         THEN IF (count + 1) % CounterModulus >= cpu_sustained_count
              THEN "WARNING" ELSE "NONE"
         ELSE "NONE"
\* Faulty variant of CpuCountAfterBranch (mutation for C3): the counter starts over
\* once a WARNING has been emitted.
CpuCountAfterBranch_ResetOnEmit(v, count) ==
    IF v > cpu_critical THEN count
    ELSE IF v > cpu_warning
         THEN IF count + 1 >= cpu_sustained_count THEN 0 ELSE count + 1
         ELSE 0

\* Faulty variant of CpuCountAfterBranch (mutation for C4): a reading at or below
\* the warning threshold leaves the counter alone.
CpuCountAfterBranch_NoResetBelow(v, count) ==
    IF v > cpu_critical THEN count
    ELSE IF v > cpu_warning THEN count + 1
         ELSE count

\* The counter the CPU collector's threshold branch leaves, before any send.
CpuCountAfterBranch(v, count) ==
    IF v > cpu_critical THEN count
    ELSE IF v > cpu_warning THEN (count + 1) % CounterModulus
         ELSE 0

\* The memory collector's threshold branch for reading v.
MemSeverity(v) ==
    IF v > memory_critical THEN "CRITICAL"
    ELSE IF v > memory_warning THEN "WARNING"
         ELSE "NONE"

\* The warning band (warning, critical] of each collector.
Warning(s) == IF s = "cpu" THEN cpu_warning ELSE memory_warning
Critical(s) == IF s = "cpu" THEN cpu_critical ELSE memory_critical
InBand(s, v) == v > Warning(s) /\ v <= Critical(s)

\* The run of consecutive warning-band readings after reading v (kept for the
\* properties; the collectors do not read it).
RunAfter(s, v, r) == IF InBand(s, v) THEN r + 1 ELSE 0

\* The collectors loop forever; the model follows MaxTicks iterations.
TicksLeft == nticks["cpu"] + nticks["mem"] < MaxTicks

\* Faulty variant of MetricsReadable (mutation for C29): a collector keeps its
\* write guard until its send has completed.
MetricsReadable_HeldInSend == \A s \in Samplers : spc[s] # "send"

\* The write guard of a collector lives in a block of its own that ends before
\* the thresholds are looked at: no collector holds the metrics lock while it
\* is suspended in a send or a sleep, so metrics.read().await completes.
MetricsReadable == TRUE

\* handle_status takes the read guard after its store query and returns
\* without another await; the guard is dropped before handle_client writes to
\* the socket. No handler holds the lock while suspended, so
\* metrics.write().await completes.
MetricsWritable == TRUE

\* Faulty variant of MemMetrics (mutation for C28): the metrics are written only
\* on the branch that emits nothing.
MemMetrics_OnlyWhenQuiet(old, v) ==
    IF v > memory_warning THEN old
    ELSE [old EXCEPT !.memory_used_mb = v, !.memory_total_mb = 100, !.memory_percent = v]

\* Faulty variant of MemMetrics (mutation for C30): the percentage is written
\* under a guard of its own, so a reader can see it next to the used amount of
\* the tick before.
MemMetrics_PercentAlone(old, v) ==
    [old EXCEPT !.memory_total_mb = 100, !.memory_percent = v]

\* The memory collector's update of the metrics, all three fields under one
\* write guard. Readings are percentages of a total of 100 MB.
MemMetrics(old, v) ==
    [old EXCEPT !.memory_used_mb = v, !.memory_total_mb = 100, !.memory_percent = v]

\* The CPU collector's update of the metrics.
CpuMetrics(old, v) == [old EXCEPT !.cpu_usage = v]

\* One iteration of the CPU collector loop up to its send (or its sleep when
\* the tick makes no event): read, write the metrics, apply the thresholds.
\* millis is Utc::now().timestamp_millis() when the event is created.
CpuTick(v, millis) ==
    /\ spc["cpu"] = "sleep"
    /\ TicksLeft
    /\ MetricsWritable
    /\ nticks' = [nticks EXCEPT !["cpu"] = @ + 1]
    /\ metrics' = CpuMetrics(metrics, v)
    /\ run' = [run EXCEPT !["cpu"] = RunAfter("cpu", v, @)]
    /\ high_cpu_count' = CpuCountAfterBranch(v, high_cpu_count)
    /\ LET sev == CpuSeverity(v, high_cpu_count) IN
         IF sev = "NONE"
         THEN /\ UNCHANGED <<spc, pending, created>>
         ELSE /\ pending' = [pending EXCEPT !["cpu"] = create_cpu_event(sev, millis)]
              /\ created' = [created EXCEPT !["cpu"] = @ + 1]
              /\ spc' = [spc EXCEPT !["cpu"] = "send"]
    /\ UNCHANGED <<sent, chan, analyzerVars, ipcVars>>

\* One iteration of the memory collector loop up to its send or sleep.
MemTick(v, millis) ==
    /\ spc["mem"] = "sleep"
    /\ TicksLeft
    /\ MetricsWritable
    /\ nticks' = [nticks EXCEPT !["mem"] = @ + 1]
    /\ metrics' = MemMetrics(metrics, v)
    /\ run' = [run EXCEPT !["mem"] = RunAfter("mem", v, @)]
    /\ LET sev == MemSeverity(v) IN
         IF sev = "NONE"
         THEN /\ UNCHANGED <<spc, pending, created>>
         ELSE /\ pending' = [pending EXCEPT !["mem"] = create_memory_event(sev, millis)]
              /\ created' = [created EXCEPT !["mem"] = @ + 1]
              /\ spc' = [spc EXCEPT !["mem"] = "send"]
    /\ UNCHANGED <<high_cpu_count, sent, chan, analyzerVars, ipcVars>>

\* A tick with a tick interval of a second or more: the ticks of one
\* collector fall into different milliseconds, and the number of the tick
\* stands for its millisecond.
CpuSample(v) == CpuTick(v, nticks["cpu"] + 1)

MemSample(v) == MemTick(v, nticks["mem"] + 1)

\* tx.send(event).await on the bounded channel: completes only once the queue
\* has a free slot. The receiver outlives every sender (the analyzer leaves its
\* loop only after all senders are gone), so the send never returns Err here.
SendReady == Len(chan) < Capacity
\* Faulty variant of CountAfterSend (mutation for C2): the critical branch forgets
\* to reset the counter.
CountAfterSend_NoReset(s, ev, count) == count

\* The counter after a completed send: the critical branch assigns 0.
CountAfterSend(s, ev, count) ==
    IF s = "cpu" /\ ev.severity = "CRITICAL" THEN 0 ELSE count
\* Faulty variant of Enqueue (mutation for C9): a sent event jumps the queue.
Enqueue_Front(q, ev) == <<ev>> \o q

\* The channel is FIFO: a sent event joins the back of the queue.
Enqueue(q, ev) == Append(q, ev)

Send(s) ==
    /\ spc[s] = "send"
    /\ SendReady
    /\ chan' = Enqueue(chan, pending[s])
    /\ sent' = sent + 1
    /\ high_cpu_count' = CountAfterSend(s, pending[s], high_cpu_count)
    /\ pending' = [pending EXCEPT ![s] = NoEvent]
    /\ spc' = [spc EXCEPT ![s] = "sleep"]
    /\ UNCHANGED <<metrics, nticks, created, run, analyzerVars, ipcVars>>

\* A collector task ends (it is dropped with the runtime, or it panics):
\* its Sender clone is dropped with it, and so is an event it was sending.
SamplerAbort(s) ==
    /\ spc[s] # "dead"
    /\ spc' = [spc EXCEPT ![s] = "dead"]
    /\ pending' = [pending EXCEPT ![s] = NoEvent]
    /\ UNCHANGED <<metrics, high_cpu_count, nticks, created, run, sent, chan, analyzerVars, ipcVars>>

\* ---- analyzer.rs ----
\* Faulty variant of NeedsEnrichment (mutation for C6): the severity is not looked at.
NeedsEnrichment_AnySeverity(ev) == llm_client

\* rx.recv().await returns Some(event): the loop body starts. The enrichment
\* call is made when the severity is CRITICAL and llm_client is Some.
NeedsEnrichment(ev) == ev.severity = "CRITICAL" /\ llm_client

Recv ==
    /\ apc = "recv"
    /\ chan # <<>>
    /\ cur' = Head(chan)
    /\ rcvd' = Head(chan)
    /\ chan' = Tail(chan)
    /\ attempted' = "no"
    /\ apc' = IF NeedsEnrichment(Head(chan)) THEN "enrich" ELSE "store"
    /\ UNCHANGED <<samplerVars, llm_client, db, dropped, ipcVars>>

\* client.analyze_event(&event).await returned Ok(suggestion)
WithSuggestion(ev) == [ev EXCEPT !.suggestion = "Some"]

EnrichOk ==
    /\ apc = "enrich"
    /\ cur' = WithSuggestion(cur)
    /\ attempted' = "ok"
    /\ apc' = "store"
    /\ UNCHANGED <<samplerVars, chan, llm_client, rcvd, db, dropped, ipcVars>>
\* Faulty variant of OnEnrichErr (mutation for C7): a failed call skips the event.
OnEnrichErr_Skip == "recv"

\* Faulty variant of OnEnrichErr (mutation for C27): a failed call is made
\* again.
OnEnrichErr_Retry == "enrich"

\* Where the loop goes when analyze_event returned Err: the error is logged
\* and the body falls through to store_event.
OnEnrichErr == "store"

\* client.analyze_event(&event).await returned Err: logged, event untouched
EnrichErr ==
    /\ apc = "enrich"
    /\ attempted' = "err"
    /\ apc' = OnEnrichErr
    /\ UNCHANGED <<samplerVars, chan, llm_client, cur, rcvd, db, dropped, ipcVars>>

\* store_event: the snapshot is the serialized entity, then the evidence,
\* then the suggestion when there is one; the row is inserted as 'open'.
Snapshot(ev) ==
    IF ev.suggestion = "None" THEN <<"entity", "evidence">>
    ELSE <<"entity", "evidence", "suggestion">>

\* Faulty variant of Row (mutation for C36): the insert writes the status "new".
Row_StatusNew(ev) ==
    [event_id |-> ev.event_id, ts |-> ev.ts, severity |-> ev.severity, type |-> ev.type,
     service_id |-> "system", snapshot |-> Snapshot(ev), status |-> "new"]

Row(ev) ==
    [event_id |-> ev.event_id, ts |-> ev.ts, severity |-> ev.severity, type |-> ev.type,
     service_id |-> "system", snapshot |-> Snapshot(ev), status |-> "open"]
\* Faulty variant of OnStoreErr (mutation for C8): a failed write ends the loop.
OnStoreErr_Stop == "stopped"

\* Where the loop goes with the result of store_event: Ok and Err are both
\* logged and the loop goes back to rx.recv().
OnStoreOk == "recv"
OnStoreErr == "recv"

\* store_event(&storage, &event).await returned Ok
StoreOk ==
    /\ apc = "store"
    /\ db' = Append(db, Row(cur))
    /\ apc' = OnStoreOk
    /\ cur' = NoEvent
    /\ rcvd' = NoEvent
    /\ attempted' = "no"
    /\ UNCHANGED <<samplerVars, chan, llm_client, dropped, ipcVars>>

\* store_event(&storage, &event).await returned Err (encoding or insert
\* failure): logged, the event is gone
StoreErr ==
    /\ apc = "store"
    /\ dropped' = dropped \cup {cur.event_id}
    /\ apc' = OnStoreErr
    /\ cur' = NoEvent
    /\ rcvd' = NoEvent
    /\ attempted' = "no"
    /\ UNCHANGED <<samplerVars, chan, llm_client, db, ipcVars>>
\* Faulty variant of ChannelClosed (mutation for C10): an empty queue counts as a
\* closed channel.
ChannelClosed_QueueEmpty == chan = <<>>

\* rx.recv().await returns None: every Sender is dropped and the queue is empty
ChannelClosed == chan = <<>> /\ \A s \in Samplers : spc[s] = "dead"

Stop ==
    /\ apc = "recv"
    /\ ChannelClosed
    /\ apc' = "stopped"
    /\ UNCHANGED <<samplerVars, chan, llm_client, cur, rcvd, attempted, db, dropped, ipcVars>>

\* ---- ipc.rs: the availability refresher ----

\* what one GET /api/tags can come to
ProbeOutcomes == {"success", "bad_status", "net_error"}

\* LlmClient::test_connection: Ok(true) on a success status, Ok(false) on any
\* other status and on a transport error; no arm returns Err.
test_connection(outcome) == outcome = "success"

\* Faulty variant of CacheAfterProbe (mutation for C19): only a successful
\* probe is stored; after a failed one the flag keeps its old value.
CacheAfterProbe_KeepOnFailure(old, outcome) ==
    IF outcome = "success" THEN TRUE ELSE old

\* `if let Ok(connected) = test_connection().await { cache.store(connected) }`
CacheAfterProbe(old, outcome) == test_connection(outcome)

\* The probe in flight returns: its result is stored and the task goes on to
\* interval.tick().await.
ProbeDone(outcome) ==
    /\ rpc = "probe"
    /\ cache' = CacheAfterProbe(cache, outcome)
    /\ last_probe' = outcome
    /\ rpc' = "tick"
    /\ UNCHANGED <<interval, probed, mainVars, conn, pipelineVars>>

\* interval.tick().await returns and the next probe is sent.
ProbeStart ==
    /\ rpc = "tick"
    /\ rpc' = "probe"
    /\ UNCHANGED <<cache, last_probe, interval, probed, mainVars, conn, pipelineVars>>

\* ---- ipc.rs: requests and responses ----

Conns == 1..MaxConns

\* event_id absent from a request
NoId == <<"absent", 0>>
\* the ids clients ask for: one a collector creates, one nobody creates
Ids == {<<"cpu", 1>>, <<"cpu", 0>>}
\* the limits clients send with list
Limits == {-1, 0, 1, 2}

\* What a handler's stream.read yields: an I/O error, end of stream (0 bytes),
\* bytes that are not JSON, or a JSON object. limit is Option<i32>: <<>> or <<n>>.
RawRequest(kind, method, limit, event_id) ==
    [kind |-> kind, method |-> method, limit |-> limit, event_id |-> event_id]

NoRequest == RawRequest("none", "none", <<>>, NoId)

\* requests without a well-formed body
BrokenRequests ==
    {RawRequest(k, "none", <<>>, NoId) : k \in {"io_error", "eof", "not_json"}}
    \cup {RawRequest("json", m, <<>>, NoId) : m \in {"bogus", "show", "analyze"}}

ListRequests ==
    {RawRequest("json", "list", l, NoId) : l \in {<<>>} \cup {<<n>> : n \in Limits}}

\* the requests of the control-plane specification
IpcRequests ==
    BrokenRequests
    \cup {RawRequest("json", "status", <<>>, NoId), RawRequest("json", "list", <<>>, NoId)}
    \cup {RawRequest("json", m, <<>>, id) : m \in {"show", "analyze"}, id \in Ids}

\* serde_json::from_str::<IpcRequest>: Ok for a JSON object whose "method" is
\* one of the four tags and, for show and analyze, has its event_id.
Parses(raw) ==
    /\ raw.kind = "json"
    /\ raw.method \in {"status", "list", "show", "analyze"}
    /\ raw.method \in {"show", "analyze"} => raw.event_id # NoId

\* IpcResponse { success, data }: data.error on failure
Success(data) == [success |-> TRUE, error |-> "", data |-> data]
Failure(error) == [success |-> FALSE, error |-> error, data |-> <<>>]
NoResponse == [success |-> FALSE, error |-> "none", data |-> <<>>]

\* Faulty variant of InvalidRequestResponse (mutation for C12): the Err arm of
\* the parse answers with success set.
InvalidRequestResponse_Ok == Success(<<>>)

\* the response to bytes that do not parse: "Invalid request: ..."
InvalidRequestResponse == Failure("Invalid request")

\* no event has been rebuilt for an enrichment call
NoEventForLlm ==
    [entity |-> "none", evidence |-> [timestamp |-> 0, threshold |-> "none"]]

\* a connection slot nobody is connected to; `last` tells how the connection
\* that used it ended ("none" before the first)
FreeConn(last) ==
    [pc |-> "free", req |-> NoRequest, resp |-> NoResponse, last |-> last,
     cache_seen |-> FALSE, lookup |-> "none", call |-> "none",
     event_for_llm |-> NoEventForLlm]

\* ---- storage.rs ----

\* get_event_by_id: the row with that id, as a sequence of at most one row
get_event_by_id(id) ==
    LET hits == {i \in 1..Len(db) : db[i].event_id = id} IN
    IF hits = {} THEN <<>>
    ELSE <<db[CHOOSE i \in hits : \A j \in hits : i <= j]>>

\* get_event_counts: open CRITICAL, WARNING and INFO rows
CountOpen(sev) ==
    Cardinality({i \in 1..Len(db) : db[i].severity = sev /\ db[i].status = "open"})

get_event_counts == <<CountOpen("CRITICAL"), CountOpen("WARNING"), CountOpen("INFO")>>

\* "ORDER BY ts DESC LIMIT ?": the orders the rows can come back in (rows with
\* equal ts in any order), as index sequences
OrdersByTsDesc(rows) ==
    {f \in [1..Len(rows) -> 1..Len(rows)] :
        /\ \A i, j \in 1..Len(rows) : i # j => f[i] # f[j]
        /\ \A i, j \in 1..Len(rows) : i < j => rows[f[i]].ts >= rows[f[j]].ts}

\* SQLite's LIMIT: a negative value means no limit
LimitCount(limit, n) ==
    IF limit < 0 THEN n ELSE IF limit < n THEN limit ELSE n

\* get_recent_events: the results the query can give
get_recent_events(rows, limit) ==
    {[i \in 1..LimitCount(limit, Len(rows)) |-> rows[f[i]]] : f \in OrdersByTsDesc(rows)}

\* ---- ipc.rs: the connection handlers ----


\* Faulty variant of AcceptLoopFree (mutation for C21): the accept loop awaits
\* handle_client itself, so it is back at accept() only when no handler runs.
AcceptLoopFree_Inline == \A d \in DOMAIN conn : conn[d].pc = "free"

\* Faulty variant of AcceptLoopFree (mutation for C24): a handler's I/O error
\* is propagated out of the accept loop, which ends with it.
AcceptLoopFree_EndsOnError ==
    \A d \in DOMAIN conn : conn[d].last \notin {"read_error", "write_error"}

\* The accept loop hands every stream to a task of its own (tokio::spawn) and
\* goes back to listener.accept() without awaiting the handler.
AcceptLoopFree == TRUE

\* listener.accept() returns a stream and handle_client is spawned on it.
\* Until its read the slot still tells how the connection before ended.
Accept(c) ==
    /\ conn[c].pc = "free"
    /\ AcceptLoopFree
    /\ conn' = [conn EXCEPT ![c] = [FreeConn(conn[c].last) EXCEPT !.pc = "read"]]
    /\ UNCHANGED <<mainVars, refresherVars, pipelineVars>>

\* listener.accept() returns Err: the error is logged and the loop goes on.
AcceptErr ==
    /\ AcceptLoopFree
    /\ UNCHANGED vars

\* Faulty variant of OnParseError (mutation for C11): the parse error is
\* propagated with `?`, so the handler returns without writing.
OnParseError_Return == "return"

\* Where handle_client goes with bytes that do not parse: it builds the
\* failure response and writes it.
OnParseError == "write"

\* stream.read returns. An error ends the handler (`?`), 0 bytes end it with
\* Ok(()); otherwise the bytes are parsed.
Read(c, raw) ==
    /\ conn[c].pc = "read"
    /\ conn' = [conn EXCEPT ![c] =
          IF raw.kind = "io_error" THEN FreeConn("read_error")
          ELSE IF raw.kind = "eof" THEN FreeConn("eof")
          ELSE IF Parses(raw) THEN [@ EXCEPT !.pc = "handle", !.req = raw, !.last = "none"]
          ELSE IF OnParseError = "write"
               THEN [@ EXCEPT !.pc = "write", !.req = raw, !.last = "none",
                              !.resp = InvalidRequestResponse]
               ELSE FreeConn("handler_error")]
    /\ UNCHANGED <<mainVars, refresherVars, pipelineVars>>

\* get_event_counts asks three COUNT queries, one after the other: the pc of
\* a status handler tells which one is next
CountPcs == <<"handle", "count_w", "count_i", "status">>
CountSeverities == <<"CRITICAL", "WARNING", "INFO">>

\* handle_status, first half: one query of
\* storage.get_event_counts().await.unwrap_or((0, 0, 0)). An Err of any of
\* the three ends get_event_counts, and the counts are (0, 0, 0).
StatusCounts(c, ok) ==
    /\ \E k \in 1..3 :
          /\ conn[c].pc = CountPcs[k]
          /\ k = 1 => conn[c].req.method = "status"
          /\ LET sofar == IF k = 1 THEN <<0, 0, 0>> ELSE conn[c].resp.data[1] IN
             conn' = [conn EXCEPT ![c] =
                IF ok
                THEN [@ EXCEPT !.pc = CountPcs[k + 1], !.lookup = "found",
                               !.resp = Success(<<[sofar EXCEPT ![k] = CountOpen(CountSeverities[k])]>>)]
                ELSE [@ EXCEPT !.pc = "status", !.lookup = "error",
                               !.resp = Success(<<<<0, 0, 0>>>>)]]
    /\ UNCHANGED <<mainVars, refresherVars, pipelineVars>>

\* Faulty variant of LlmAvailable (mutation for C20): the collaborator counts
\* as available as soon as one is configured.
LlmAvailable_Configured == llm_client

\* llm.available of a status response: the cached flag when a client is
\* configured, false otherwise
LlmAvailable == IF llm_client THEN cache ELSE FALSE

\* Faulty variant of StatusResponse (mutation for C37): a failed count query
\* is answered with an error, as in the other handlers.
StatusResponse_FailOnError(lookup, data) ==
    IF lookup = "error" THEN Failure("Database error") ELSE Success(<<data>>)

\* handle_status's IpcResponse: success: true in every case, whether the
\* count query returned Ok or Err
StatusResponse(lookup, data) == Success(<<data>>)

\* handle_status, second half: the metrics under the read lock, the cached
\* flag, and the response
StatusRespond(c) ==
    /\ conn[c].pc = "status"
    /\ MetricsReadable
    /\ conn' = [conn EXCEPT ![c] =
          [@ EXCEPT !.pc = "write", !.cache_seen = cache,
                    !.resp = StatusResponse(conn[c].lookup,
                                            [events |-> conn[c].resp.data[1],
                                             metrics |-> metrics,
                                             llm_available |-> LlmAvailable])]]
    /\ UNCHANGED <<mainVars, refresherVars, pipelineVars>>

\* handle_request: limit.unwrap_or(20)
LimitOrDefault(limit) == IF limit = <<>> THEN 20 ELSE limit[1]

\* handle_list's summary of a row
Summary(row) ==
    [event_id |-> row.event_id, ts |-> row.ts, severity |-> row.severity,
     type |-> row.type, status |-> row.status]

\* handle_list with the query returning Ok(events)
ListOk(c) ==
    /\ conn[c].pc = "handle"
    /\ conn[c].req.method = "list"
    /\ \E events \in get_recent_events(db, LimitOrDefault(conn[c].req.limit)) :
          conn' = [conn EXCEPT ![c] =
              [@ EXCEPT !.pc = "write", !.lookup = "found",
                        !.resp = Success([i \in 1..Len(events) |-> Summary(events[i])])]]
    /\ UNCHANGED <<mainVars, refresherVars, pipelineVars>>

\* handle_list with the query returning Err
ListErr(c) ==
    /\ conn[c].pc = "handle"
    /\ conn[c].req.method = "list"
    /\ conn' = [conn EXCEPT ![c] =
          [@ EXCEPT !.pc = "write", !.lookup = "error",
                    !.resp = Failure("Failed to fetch events")]]
    /\ UNCHANGED <<mainVars, refresherVars, pipelineVars>>

\* Faulty variant of ParseSnapshot (mutation for C35): the decoder stops after
\* the first document of the snapshot and returns it.
ParseSnapshot_FirstDocument(snapshot) == {snapshot[1]}

\* serde_json::from_slice on the stored snapshot bytes, the decoded object
\* given as the set of the parts whose fields it has: one JSON document parses
\* to that document; anything else (documents appended to each other leave
\* trailing characters) is an error, replaced by the empty object.
ParseSnapshot(snapshot) ==
    IF Len(snapshot) = 1 THEN {snapshot[1]} ELSE {}

\* the data of a successful show
ShowData(row) ==
    [event_id |-> row.event_id, ts |-> row.ts, severity |-> row.severity,
     type |-> row.type, service_id |-> row.service_id, status |-> row.status,
     snapshot |-> ParseSnapshot(row.snapshot)]

\* Faulty variant of ShowMissingResponse (mutation for C13): a missing event
\* is answered with success and empty data.
ShowMissingResponse_Ok == Success(<<>>)

\* the response of handle_show to Ok(None)
ShowMissingResponse == Failure("Event not found")

\* handle_show: get_event_by_id returned Ok (ok) or Err
Show(c, ok) ==
    /\ conn[c].pc = "handle"
    /\ conn[c].req.method = "show"
    /\ LET found == get_event_by_id(conn[c].req.event_id) IN
       conn' = [conn EXCEPT ![c] =
          [@ EXCEPT !.pc = "write",
                    !.lookup = IF ~ok THEN "error" ELSE IF found = <<>> THEN "missing" ELSE "found",
                    !.resp = IF ~ok THEN Failure("Database error")
                             ELSE IF found = <<>> THEN ShowMissingResponse
                             ELSE Success(<<ShowData(found[1])>>)]]
    /\ UNCHANGED <<mainVars, refresherVars, pipelineVars>>

\* Faulty variant of AnalyzeCalls (mutation for C14): the call is made without
\* looking at the client handle.
AnalyzeCalls_Always(cached) == TRUE

\* Faulty variant of AnalyzeCalls (mutation for C16): the call is skipped when
\* the cached availability flag is false.
AnalyzeCalls_Cached(cached) == llm_client /\ cached

\* handle_analyze after a successful lookup of an existing event: whether the
\* enrichment call is made. Only the client handle is looked at.
AnalyzeCalls(cached) == llm_client

\* handle_analyze's entity: the "entity" field of the decoded snapshot (no
\* document has such a field); failing that the decoded snapshot itself when
\* it is an object with a cpu_usage, memory_percent or type field, as the
\* entity document is; failing that the empty object.
EntityForLlm(parsed) == IF "entity" \in parsed THEN "entity" ELSE "empty"

\* handle_analyze's evidence: the "evidence" field of the decoded snapshot (no
\* document has such a field), failing that the fallback made of the row's ts.
EvidenceForLlm(parsed, ts) == [timestamp |-> ts, threshold |-> "unknown"]

\* event_for_llm, the event handed to analyze_event, as far as it is rebuilt
\* from the snapshot
EventForLlm(row) ==
    [entity |-> EntityForLlm(ParseSnapshot(row.snapshot)),
     evidence |-> EvidenceForLlm(ParseSnapshot(row.snapshot), row.ts)]

\* handle_analyze up to the enrichment call: the lookup comes first, then the
\* check of the client handle.
AnalyzeLookup(c, ok) ==
    /\ conn[c].pc = "handle"
    /\ conn[c].req.method = "analyze"
    /\ LET found == get_event_by_id(conn[c].req.event_id) IN
       conn' = [conn EXCEPT ![c] =
          IF ~ok
          THEN [@ EXCEPT !.pc = "write", !.lookup = "error", !.cache_seen = cache,
                         !.resp = Failure("Database error")]
          ELSE IF found = <<>>
          THEN [@ EXCEPT !.pc = "write", !.lookup = "missing", !.cache_seen = cache,
                         !.resp = Failure("Event not found")]
          ELSE IF ~AnalyzeCalls(cache)
          THEN [@ EXCEPT !.pc = "write", !.lookup = "found", !.cache_seen = cache,
                         !.resp = Failure("LLM client not available")]
          ELSE [@ EXCEPT !.pc = "llm", !.lookup = "found", !.cache_seen = cache,
                         !.event_for_llm = EventForLlm(found[1])]]
    /\ UNCHANGED <<mainVars, refresherVars, pipelineVars>>

\* Faulty variant of StoreAfterAnalyze (mutation for C33): the suggestion of an
\* on-demand analysis is appended to the snapshot of the stored event.
StoreAfterAnalyze_Persist(rows, id) ==
    [i \in 1..Len(rows) |->
        IF rows[i].event_id = id
        THEN [rows[i] EXCEPT !.snapshot = Append(@, "suggestion")]
        ELSE rows[i]]

\* The events table after a successful on-demand analysis: the Ok arm builds
\* its response from the suggestion and makes no call on the store.
StoreAfterAnalyze(rows, id) == rows

\* llm_client.analyze_event(&event_for_llm).await returned Ok(suggestion)
AnalyzeOk(c) ==
    /\ conn[c].pc = "llm"
    /\ conn' = [conn EXCEPT ![c] =
          [@ EXCEPT !.pc = "write", !.call = "ok",
                    !.resp = Success(<<[event_id |-> conn[c].req.event_id,
                                        suggestion |-> "Some"]>>)]]
    /\ db' = StoreAfterAnalyze(db, conn[c].req.event_id)
    /\ UNCHANGED <<mainVars, refresherVars, samplerVars, chan,
                   llm_client, apc, cur, rcvd, attempted, dropped>>

\* llm_client.analyze_event(&event_for_llm).await returned Err
AnalyzeErr(c) ==
    /\ conn[c].pc = "llm"
    /\ conn' = [conn EXCEPT ![c] =
          [@ EXCEPT !.pc = "write", !.call = "err", !.resp = Failure("LLM analysis failed")]]
    /\ UNCHANGED <<mainVars, refresherVars, pipelineVars>>

\* The response is serialized and written, then a newline, and the handler
\* returns, which closes the stream; a failed write ends the handler as well.
Write(c, ok) ==
    /\ conn[c].pc = "write"
    /\ conn' = [conn EXCEPT ![c] = FreeConn(IF ok THEN "responded" ELSE "write_error")]
    /\ UNCHANGED <<mainVars, refresherVars, pipelineVars>>

Init ==
    /\ metrics = [cpu_usage |-> 0, memory_used_mb |-> 0, memory_total_mb |-> 0,
                  memory_percent |-> 0]
    /\ high_cpu_count = 0
    /\ spc = [s \in Samplers |-> "sleep"]
    /\ pending = [s \in Samplers |-> NoEvent]
    /\ nticks = [s \in Samplers |-> 0]
    /\ created = [s \in Samplers |-> 0]
    /\ run = [s \in Samplers |-> 0]
    /\ sent = 0
    /\ chan = <<>>
    /\ llm_client \in BOOLEAN
    /\ apc = "recv"
    /\ cur = NoEvent
    /\ rcvd = NoEvent
    /\ attempted = "no"
    /\ db = <<>>
    /\ dropped = {}
    /\ clock = 0
    /\ mpc = "running"
    /\ conn = [c \in Conns |-> FreeConn("none")]
    /\ cache = FALSE
    /\ rpc = IF llm_client THEN "probe" ELSE "off"
    /\ last_probe = "none"
    /\ interval = <<>>
    /\ probed = IF llm_client THEN <<clock>> ELSE <<>>

Next ==
    \/ \E v \in CpuReadings : CpuSample(v)
    \/ \E v \in MemReadings : MemSample(v)
    \/ \E s \in Samplers : Send(s)
    \/ \E s \in Samplers : SamplerAbort(s)
    \/ Recv
    \/ EnrichOk
    \/ EnrichErr
    \/ StoreOk
    \/ StoreErr
    \/ Stop

Spec == Init /\ [][Next]_vars

\* ---- the control plane together with the pipeline ----

IpcTicksLeft == nticks["cpu"] + nticks["mem"] < MaxIpcTicks

\* The pipeline while the control plane is served: a critical CPU reading
\* puts an event, enriched or not, in the store; the memory reading, at the
\* warning threshold, updates the metrics and makes no event; the tasks do
\* not shut down.
IpcCpuReadings == {97}
IpcMemReadings == {85}

Pipeline ==
    \/ \E v \in IpcCpuReadings : IpcTicksLeft /\ CpuSample(v)
    \/ \E v \in IpcMemReadings : IpcTicksLeft /\ MemSample(v)
    \/ \E s \in Samplers : Send(s)
    \/ Recv
    \/ EnrichOk
    \/ EnrichErr
    \/ StoreOk
    \/ StoreErr

Refresher ==
    \/ \E o \in ProbeOutcomes : ProbeDone(o)
    \/ ProbeStart

\* the handlers of the connections conns, reading requests
HandlersOn(conns, requests) ==
    \/ \E c \in conns : Accept(c)
    \/ \E c \in conns, raw \in requests : Read(c, raw)
    \/ \E c \in conns, ok \in BOOLEAN : StatusCounts(c, ok)
    \/ \E c \in conns : StatusRespond(c)
    \/ \E c \in conns : ListOk(c)
    \/ \E c \in conns : ListErr(c)
    \/ \E c \in conns, ok \in BOOLEAN : Show(c, ok)
    \/ \E c \in conns, ok \in BOOLEAN : AnalyzeLookup(c, ok)
    \/ \E c \in conns : AnalyzeOk(c)
    \/ \E c \in conns : AnalyzeErr(c)
    \/ \E c \in conns, ok \in BOOLEAN : Write(c, ok)

Handlers(requests) == HandlersOn(Conns, requests)

IpcNext == Pipeline \/ Refresher \/ Handlers(IpcRequests)

IpcSpec == Init /\ [][IpcNext]_vars

\* ---- helpers for the properties ----

\* a tick of collector s: its loop starts a new iteration in this step
Tick(s) == nticks'[s] = nticks[s] + 1
\* the reading a collector wrote to the metrics on its latest tick
Reading(s) == IF s = "cpu" THEN metrics.cpu_usage ELSE metrics.memory_percent
\* collector s creates an event in this step
Emits(s) == created'[s] = created[s] + 1
EmitsNothing(s) == created'[s] = created[s] /\ pending'[s] = NoEvent
\* the analyzer is inside an enrichment call or a store write
AnalyzerBusy == apc \in {"enrich", "store"}
\* the events of the queue, and the ids of the rows of the store
InChan(id, sev) == \E i \in 1..Len(chan) : chan[i].event_id = id /\ chan[i].severity = sev
InDb(id, sev) == \E i \in 1..Len(db) : db[i].event_id = id /\ db[i].severity = sev

\* ---- C1 ----
\* C1: whenever a collector is in its send while the channel is at capacity
\* and the analyzer is inside an enrichment call or a store write, the
\* collector can still take a step of its own (its send completes or is
\* abandoned), so it goes on to its next tick whatever the analyzer does.
C1_SamplerNeverBlocked ==
    \A s \in Samplers :
        (spc[s] = "send" /\ Len(chan) = Capacity /\ AnalyzerBusy) => ENABLED Send(s)

\* C1, liveness form: a collector that is in its send leaves it again. The
\* tokio scheduler runs every ready task, the collectors' sends and the
\* analyzer's receive included, and the enrichment call returns within its
\* client timeout; nothing in the code bounds the store write.
FairSpec ==
    /\ Spec
    /\ \A s \in Samplers : WF_vars(Send(s))
    /\ WF_vars(Recv)
    /\ WF_vars(EnrichOk \/ EnrichErr)
    /\ WF_vars(Stop)

C1_SendEventuallyCompletes ==
    \A s \in Samplers : (spc[s] = "send") ~> (spc[s] # "send")

\* ---- C2 ----
\* C2: every tick of either collector whose reading is above that resource's
\* critical threshold creates exactly one event, of severity CRITICAL, on that
\* tick (events are created on no other step), whatever the previous ticks
\* were; and when the CPU collector is between ticks after such a reading its
\* consecutive-warning counter is 0.
C2_CriticalTick(s) ==
    (Tick(s) /\ Reading(s)' > Critical(s))
        => /\ Emits(s)
           /\ pending'[s].severity = "CRITICAL"
           /\ pending'[s].event_id = <<s, nticks'[s]>>
           /\ spc'[s] = "send"

C2_CriticalAlwaysEmits ==
    /\ [][\A s \in Samplers : C2_CriticalTick(s)]_vars
    /\ [][\A s \in Samplers : created'[s] # created[s] => Tick(s) /\ Emits(s)]_vars
    /\ [](spc["cpu"] = "sleep" /\ nticks["cpu"] > 0 /\ Reading("cpu") > cpu_critical
            => high_cpu_count = 0)

\* two critical CPU ticks in a row: the CRITICAL of tick 3 is being sent while
\* the CRITICAL of tick 2 is queued or stored, and the counter is 0
C2_Witness ==
    /\ nticks["cpu"] = 3
    /\ pending["cpu"].severity = "CRITICAL"
    /\ pending["cpu"].event_id = <<"cpu", 3>>
    /\ high_cpu_count = 0
    /\ \/ InChan(<<"cpu", 2>>, "CRITICAL")
       \/ InDb(<<"cpu", 2>>, "CRITICAL")

\* ---- C3 ----
\* C3: on every CPU tick whose reading is in the warning band and is at least
\* the cpu_sustained_count-th consecutive such reading, one WARNING event is
\* created on that tick; emitting does not reset the counter, so this repeats
\* on every later tick of the run.
C3_SustainedWarningRepeats ==
    [][(Tick("cpu") /\ InBand("cpu", Reading("cpu")') /\ run'["cpu"] >= cpu_sustained_count)
          => /\ Emits("cpu")
             /\ pending'["cpu"].severity = "WARNING"
             /\ pending'["cpu"].event_id = <<"cpu", nticks'["cpu"]>>
             /\ high_cpu_count' = high_cpu_count + 1]_vars

\* the tick after the sustained_count-th of a run: a further WARNING is sent
C3_Witness ==
    /\ run["cpu"] = cpu_sustained_count + 1
    /\ spc["cpu"] = "send"
    /\ pending["cpu"].severity = "WARNING"
    /\ \/ InChan(<<"cpu", nticks["cpu"] - 1>>, "WARNING")
       \/ InDb(<<"cpu", nticks["cpu"] - 1>>, "WARNING")

\* ---- C4 ----
\* C4: when the CPU collector is between ticks and its latest reading was at
\* or below the warning threshold or above the critical threshold, the
\* counter is 0; and a CPU tick that starts a run of warning-band readings
\* (the reading before it was outside the band) leaves the counter at 1 and
\* creates no event, so a WARNING needs cpu_sustained_count band readings in a
\* row again.
C4_ResetByOneSample ==
    /\ [](spc["cpu"] = "sleep" /\ nticks["cpu"] > 0 /\ ~InBand("cpu", Reading("cpu"))
            => high_cpu_count = 0)
    /\ [][(Tick("cpu") /\ InBand("cpu", Reading("cpu")') /\ run'["cpu"] = 1)
            => high_cpu_count' = 1 /\ EmitsNothing("cpu") /\ spc'["cpu"] = "sleep"]_vars

\* the scenario 97, 85, 85: the CRITICAL of tick 1 is on its way, tick 2 made
\* nothing and tick 3 is sending a WARNING with the counter at 2
C4_Witness ==
    /\ nticks["cpu"] = 3
    /\ Reading("cpu") = 85
    /\ high_cpu_count = 2
    /\ pending["cpu"].severity = "WARNING"
    /\ pending["cpu"].event_id = <<"cpu", 3>>
    /\ created["cpu"] = 2
    /\ \/ InChan(<<"cpu", 1>>, "CRITICAL")
       \/ InDb(<<"cpu", 1>>, "CRITICAL")
       \/ cur.event_id = <<"cpu", 1>>

C6_EnrichIffCriticalAndConfigured ==
    /\ [](apc = "enrich" => cur.severity = "CRITICAL" /\ llm_client /\ attempted = "no")
    /\ [](apc = "store"
            => /\ attempted \in {"ok", "err"} <=> (cur.severity = "CRITICAL" /\ llm_client)
               /\ attempted = "no" => cur = rcvd)
    /\ [][(db' # db \/ dropped' # dropped) => apc = "store"]_vars

\* with a collaborator configured: a WARNING went to the store with no call,
\* and a CRITICAL is at the hand-over with its call completed
C6_Witness ==
    /\ llm_client
    /\ apc = "store"
    /\ cur.severity = "CRITICAL"
    /\ attempted = "ok"
    /\ \E i \in 1..Len(db) : db[i].severity = "WARNING" /\ Len(db[i].snapshot) = 2

\* ---- C7 ----
\* C7: when the enrichment call fails the analyzer goes on to the store
\* hand-over with the event exactly as it was received (suggestion absent),
\* and the row it inserts is the row of that event without a suggestion.
C7_EnrichFailureStillStores ==
    /\ [][(apc = "enrich" /\ attempted' = "err")
            => apc' = "store" /\ cur' = rcvd /\ cur'.suggestion = "None"]_vars
    /\ [](attempted = "err" => apc = "store" /\ cur = rcvd /\ cur.suggestion = "None")
    /\ [][(attempted = "err" /\ db' # db)
            => db' = Append(db, Row(rcvd)) /\ Len(Row(rcvd).snapshot) = 2]_vars

\* a CRITICAL event whose enrichment failed is in the store, without suggestion
C7_Witness ==
    /\ llm_client
    /\ dropped = {}
    /\ \E i \in 1..Len(db) :
          /\ db[i].severity = "CRITICAL"
          /\ db[i].snapshot = <<"entity", "evidence">>

\* ---- C8 ----
\* C8: a failed store hand-over drops the event (it is not stored, not put
\* back in the channel and not kept by the analyzer) and takes the analyzer
\* back to its receive; the analyzer is never stopped while a sender lives,
\* so later events are still received and stored.
C8_StoreFailureDropsAndContinues ==
    /\ [][dropped' # dropped
            => /\ apc' = "recv"
               /\ db' = db
               /\ chan' = chan
               /\ cur' = NoEvent
               /\ dropped' = dropped \cup {cur.event_id}]_vars
    /\ [](\A id \in dropped :
            /\ \A i \in 1..Len(db) : db[i].event_id # id
            /\ \A i \in 1..Len(chan) : chan[i].event_id # id
            /\ cur.event_id # id)
    /\ [](dropped # {} /\ apc = "stopped" => \A s \in Samplers : spc[s] = "dead")

\* the store failed on the first CPU event and the second was stored after it
C8_Witness ==
    /\ <<"cpu", 1>> \in dropped
    /\ \E i \in 1..Len(db) : db[i].event_id = <<"cpu", 2>>

\* ---- C9 ----
\* C9: the rows of the store that come from one collector are in the order in
\* which that collector created their events.
C9_PerSamplerOrder ==
    \A i, j \in 1..Len(db) :
        (i < j /\ db[i].event_id[1] = db[j].event_id[1])
            => db[i].event_id[2] < db[j].event_id[2]

\* two CPU events stored in order with a memory event between them, the first
\* one after a successful enrichment
C9_Witness ==
    /\ Len(db) >= 3
    /\ db[1].event_id[1] = "cpu" /\ db[1].snapshot = <<"entity", "evidence", "suggestion">>
    /\ db[2].event_id[1] = "mem"
    /\ db[3].event_id[1] = "cpu"

\* ---- C10 ----
\* C10: the analyzer is stopped only with every sender dropped and the queue
\* empty; it stops only from its receive (never out of an enrichment call or a
\* store hand-over), and there it can stop exactly when the channel is
\* closed; every event the channel accepted has had its store hand-over by
\* then, and once stopped the analyzer changes nothing.
C10_Closed == chan = <<>> /\ \A s \in Samplers : spc[s] = "dead"

C10_StopsOnlyOnClosedChannel ==
    /\ [](apc = "stopped"
            => /\ C10_Closed
               /\ Len(db) + Cardinality(dropped) = sent
               /\ cur = NoEvent)
    /\ [][(apc' = "stopped" /\ apc # "stopped") => apc = "recv" /\ C10_Closed]_vars
    /\ [][apc = "stopped" => UNCHANGED <<chan, analyzerVars>>]_vars
    /\ [](apc = "recv" => (ENABLED Stop <=> C10_Closed))

\* stopped after draining: events were still queued when the last sender went
\* away, one store hand-over failed, and the analyzer stopped only afterwards
C10_Witness ==
    /\ apc = "stopped"
    /\ sent >= 2
    /\ Len(db) >= 1
    /\ dropped # {}

\* ---- C11 ----
\* how a connection's handler can end
C11_Ends == {"responded", "eof", "read_error", "write_error"}

\* one step of the handler of connection c after its read
C11_HandlerStep(c) ==
    \/ \E ok \in BOOLEAN : StatusCounts(c, ok)
    \/ StatusRespond(c)
    \/ ListOk(c)
    \/ ListErr(c)
    \/ \E ok \in BOOLEAN : Show(c, ok)
    \/ \E ok \in BOOLEAN : AnalyzeLookup(c, ok)
    \/ AnalyzeOk(c)
    \/ AnalyzeErr(c)
    \/ Write(c, TRUE)

C12_Malformed(raw) ==
    \/ raw.kind = "not_json"
    \/ /\ raw.kind = "json"
       /\ \/ raw.method \notin {"status", "list", "show", "analyze"}
          \/ raw.method \in {"show", "analyze"} /\ raw.event_id = NoId

\* everything but connection c
C12_RestUnchanged(c) ==
    /\ UNCHANGED <<pipelineVars, refresherVars, clock>>
    /\ \A d \in Conns \ {c} : conn'[d] = conn[d]

C13_InStore(id) == \E i \in 1..Len(db) : db[i].event_id = id

\* C13: rows are never removed, so an id that is not in the store now was not
\* in it when a handler looked it up. A show handler whose id is not in the
\* store is either before its lookup, which it can take, or at its write with
\* a failure response carrying a non-empty error, which it can write: the
\* handler is never ended by the lookup, whatever the analyzer inserts
\* meanwhile.
C13_ShowUnknownFails ==
    \A c \in Conns :
        (conn[c].req.method = "show" /\ conn[c].req.event_id # NoId
            /\ ~C13_InStore(conn[c].req.event_id))
        => /\ conn[c].pc \in {"handle", "write"}
           /\ conn[c].pc = "handle" => ENABLED Show(c, TRUE) /\ ENABLED Show(c, FALSE)
           /\ conn[c].pc = "write"
                 => /\ conn[c].resp.success = FALSE
                    /\ conn[c].resp.error \notin {"", "none"}
                    /\ conn[c].resp.data = <<>>
                    /\ ENABLED Write(c, TRUE)

\* the lookup of an id nobody created returned Ok(None) against a store that
\* holds an event inserted by the analyzer
C13_Witness ==
    \E c \in Conns :
        /\ conn[c].req.method = "show"
        /\ conn[c].req.event_id = <<"cpu", 0>>
        /\ conn[c].pc = "write"
        /\ conn[c].lookup = "missing"
        /\ db # <<>>

\* ---- C14 ----
\* C14: with no collaborator configured, an analyze handler is never inside
\* an enrichment call and has made none, whatever id it was given and whether
\* or not the store holds it; its response, once built, has success false.
C14_NoCollaboratorNoCall ==
    ~llm_client =>
        \A c \in Conns :
            conn[c].req.method = "analyze" /\ conn[c].req.event_id # NoId
            => /\ conn[c].pc \in {"handle", "write"}
               /\ conn[c].call = "none"
               /\ conn[c].pc = "write"
                     => conn[c].resp.success = FALSE /\ conn[c].resp.data = <<>>

\* analyze of a stored event has been refused for want of a collaborator
C14_Witness ==
    /\ ~llm_client
    /\ \E c \in Conns :
          /\ conn[c].req.method = "analyze"
          /\ conn[c].pc = "write"
          /\ C13_InStore(conn[c].req.event_id)
          /\ conn[c].lookup = "found"
          /\ conn[c].resp.success = FALSE

\* ---- C15 ----
\* C15: with no collaborator configured, every analyze request is answered
\* with the one fixed error about the missing collaborator, whatever the id,
\* the store and the cache.
C15_OneFixedError ==
    ~llm_client =>
        \A c \in Conns :
            (conn[c].req.method = "analyze" /\ conn[c].req.event_id # NoId
                /\ conn[c].pc = "write")
            => conn[c].resp = Failure("LLM client not available")

\* ---- C16 ----
\* the response of analyze as a function of the lookup result, the presence of
\* a collaborator and the outcome of the call, with no cache among its inputs
C16_Response(id, lookup, client, call) ==
    IF lookup = "error" THEN Failure("Database error")
    ELSE IF lookup = "missing" THEN Failure("Event not found")
    ELSE IF ~client THEN Failure("LLM client not available")
    ELSE IF call = "ok" THEN Success(<<[event_id |-> id, suggestion |-> "Some"]>>)
    ELSE Failure("LLM analysis failed")

\* C16: what analyze decides and returns is determined by the lookup result,
\* the presence of a collaborator and the outcome of the call, so two runs
\* that differ only in the cached flag decide and answer alike. With a
\* collaborator and the event found the call is made whatever the cache holds
\* (the handler is in the call or has its outcome), and the response has
\* success exactly when the call succeeded.
C16_AnalyzeIgnoresCache ==
    \A c \in Conns :
        conn[c].req.method = "analyze" /\ conn[c].req.event_id # NoId
        => /\ conn[c].pc = "llm" => llm_client /\ conn[c].lookup = "found"
           /\ (conn[c].lookup = "found" /\ llm_client)
                 => \/ conn[c].pc = "llm" /\ conn[c].call = "none"
                    \/ conn[c].pc = "write" /\ conn[c].call \in {"ok", "err"}
           /\ conn[c].pc = "write"
                 => /\ conn[c].resp = C16_Response(conn[c].req.event_id, conn[c].lookup,
                                                   llm_client, conn[c].call)
                    /\ conn[c].call = "ok" <=> conn[c].resp.success
                    /\ conn[c].call # "none" => conn[c].lookup = "found" /\ llm_client

\* the call was made and succeeded although the cache held false when the
\* handler decided
C16_Witness ==
    \E c \in Conns :
        /\ conn[c].req.method = "analyze"
        /\ conn[c].pc = "write"
        /\ ~conn[c].cache_seen
        /\ conn[c].call = "ok"
        /\ conn[c].resp.success

\* ---- list against stores of several rows ----

\* a row as store_event inserts it, with timestamp t
StoredAt(i, t) ==
    Row([event_id |-> <<"cpu", i>>, ts |-> t, severity |-> "CRITICAL",
         type |-> "cpu_high", suggestion |-> "None", status |-> "open"])

\* the events table as the agent finds it at start: rows of earlier runs, in
\* insert order, with timestamps that do not decrease
ListStores ==
    UNION {{[i \in 1..n |-> StoredAt(i, t[i])] :
                t \in {f \in [1..n -> 0..MaxTs] :
                          \A i, j \in 1..n : i < j => f[i] <= f[j]}} :
           n \in 0..MaxRows}

ListInit ==
    /\ metrics = [cpu_usage |-> 0, memory_used_mb |-> 0, memory_total_mb |-> 0,
                  memory_percent |-> 0]
    /\ high_cpu_count = 0
    /\ spc = [s \in Samplers |-> "sleep"]
    /\ pending = [s \in Samplers |-> NoEvent]
    /\ nticks = [s \in Samplers |-> 0]
    /\ created = [s \in Samplers |-> 0]
    /\ run = [s \in Samplers |-> 0]
    /\ sent = 0
    /\ chan = <<>>
    /\ llm_client = FALSE
    /\ apc = "recv"
    /\ cur = NoEvent
    /\ rcvd = NoEvent
    /\ attempted = "no"
    /\ db \in ListStores
    /\ dropped = {}
    /\ clock = MaxTs * 1000
    /\ mpc = "running"
    /\ conn = [c \in Conns |-> FreeConn("none")]
    /\ cache = FALSE
    /\ rpc = "off"
    /\ last_probe = "none"
    /\ interval = <<>>
    /\ probed = IF llm_client THEN <<clock>> ELSE <<>>

ListNext ==
    \/ \E c \in Conns : Accept(c)
    \/ \E c \in Conns, raw \in ListRequests : Read(c, raw)
    \/ \E c \in Conns : ListOk(c)
    \/ \E c \in Conns : ListErr(c)
    \/ \E c \in Conns, ok \in BOOLEAN : Write(c, ok)

ListSpec == ListInit /\ [][ListNext]_vars

\* ---- C17 ----
\* the limit a list request asks for: its own, or 20
C17_Limit(raw) == IF raw.limit = <<>> THEN 20 ELSE raw.limit[1]

\* the events of the response are those of greatest timestamp, newest first:
\* no row left out is newer than a row returned
C17_Newest(events) ==
    /\ \A i, j \in 1..Len(events) : i < j => events[i].ts >= events[j].ts
    /\ \A i \in 1..Len(events) :
          \E k \in 1..Len(db) : Summary(db[k]) = events[i]
    /\ \A i, j \in 1..Len(events) : i # j => events[i].event_id # events[j].event_id
    /\ \A k \in 1..Len(db) :
          (\A i \in 1..Len(events) : events[i].event_id # db[k].event_id)
              => \A i \in 1..Len(events) : events[i].ts >= db[k].ts

\* C17 as stated: a successful list returns at most limit events (none for a
\* limit of 0 or less), the newest ones in descending timestamp order, with
\* the five summary fields only, and uses 20 when no limit is given.
C17_AtMostLimit ==
    \A c \in Conns :
        (conn[c].req.method = "list" /\ conn[c].pc = "write" /\ conn[c].resp.success)
        => /\ Len(conn[c].resp.data) <= C17_Limit(conn[c].req)
                \/ (C17_Limit(conn[c].req) < 0 /\ Len(conn[c].resp.data) = 0)
           /\ C17_Newest(conn[c].resp.data)
           /\ \A i \in 1..Len(conn[c].resp.data) :
                 DOMAIN conn[c].resp.data[i] = {"event_id", "ts", "severity", "type", "status"}

\* C17 for the limits that are not negative: exactly min(limit, rows) events,
\* the newest first
C17_ListRule ==
    \A c \in Conns :
        (conn[c].req.method = "list" /\ conn[c].pc = "write" /\ conn[c].resp.success
            /\ C17_Limit(conn[c].req) >= 0)
        => /\ Len(conn[c].resp.data) =
                 (IF C17_Limit(conn[c].req) < Len(db) THEN C17_Limit(conn[c].req) ELSE Len(db))
           /\ C17_Newest(conn[c].resp.data)

\* ---- C18 ----
\* C18 as stated: a successful show of a stored event carries the row's
\* event_id, severity and type, and a snapshot object that has the event's
\* entity fields and its evidence fields.
C18_RoundTrip ==
    \A c \in Conns :
        (conn[c].req.method = "show" /\ conn[c].pc = "write" /\ conn[c].resp.success)
        => \E i \in 1..Len(db) :
              /\ db[i].event_id = conn[c].req.event_id
              /\ conn[c].resp.data[1].event_id = db[i].event_id
              /\ conn[c].resp.data[1].severity = db[i].severity
              /\ conn[c].resp.data[1].type = db[i].type
              /\ {"entity", "evidence"} \subseteq conn[c].resp.data[1].snapshot

\* the part of C18 that holds: every stored event is found by show, with its
\* event_id, severity and type
C18_IdSeverityType ==
    \A c \in Conns :
        (conn[c].req.method = "show" /\ conn[c].pc = "write"
            /\ conn[c].lookup \in {"found", "missing"})
        => (conn[c].resp.success
            /\ \E i \in 1..Len(db) :
                  /\ db[i].event_id = conn[c].req.event_id
                  /\ conn[c].resp.data[1].event_id = db[i].event_id
                  /\ conn[c].resp.data[1].severity = db[i].severity
                  /\ conn[c].resp.data[1].type = db[i].type)
           \/ (~conn[c].resp.success /\ conn[c].lookup = "missing")

\* ---- C19 ----
\* C19: the cache is true exactly when the latest completed probe succeeded
\* (a non-success status and a network error both leave it false, and it is
\* false while no probe has completed); with a collaborator configured the
\* refresher is always either in a probe, which can return with any outcome,
\* or waiting for its next tick, which it can take; and a status request is
\* answered with success whatever the probes came to.
C19_CacheIsLastProbe ==
    /\ cache = (last_probe = "success")
    /\ llm_client
          => /\ rpc \in {"probe", "tick"}
             /\ rpc = "probe" => \A o \in ProbeOutcomes : ENABLED ProbeDone(o)
             /\ rpc = "tick" => ENABLED ProbeStart
    /\ ~llm_client => rpc = "off" /\ last_probe = "none"
    /\ \A c \in Conns :
          (conn[c].req.method = "status" /\ conn[c].pc = "write")
              => /\ conn[c].resp.success
                 /\ conn[c].resp.error = ""

\* the latest probe failed on the network, the refresher is in its next probe
\* and a status request has been answered with llm.available false
C19_Witness ==
    /\ last_probe = "net_error"
    /\ ~cache
    /\ rpc = "probe"
    /\ \E c \in Conns :
          /\ conn[c].req.method = "status"
          /\ conn[c].pc = "write"
          /\ conn[c].resp.success
          /\ ~conn[c].resp.data[1].llm_available

\* ---- C20 ----
\* C20: the cache changes only in the step in which a probe of the refresher
\* returns, and that step changes no connection and no pipeline state; a step
\* of a handler or of the pipeline (the analyzer included) leaves the cache
\* and the refresher alone, so no handler probes. The llm.available of a
\* status response is the value the cache has in the step that builds the
\* response, and that step is enabled whenever the handler is there, a probe
\* in flight or not.
C20_OnlyRefresherWritesCache ==
    /\ [][cache' # cache
            => /\ rpc = "probe" /\ rpc' = "tick"
               /\ conn' = conn
               /\ UNCHANGED pipelineVars]_vars
    /\ [][(conn' # conn \/ pipelineVars' # pipelineVars) => UNCHANGED refresherVars]_vars
    /\ [][\A c \in Conns :
            (conn[c].pc = "status" /\ conn'[c].pc = "write")
                => /\ conn'[c].resp.success
                   /\ conn'[c].resp.data[1].llm_available = cache]_vars
    /\ [](\A c \in Conns : conn[c].pc = "status" => ENABLED StatusRespond(c))
    /\ [](\A c \in Conns :
            (conn[c].pc = "handle" /\ conn[c].req.method = "status")
                => ENABLED StatusCounts(c, TRUE))

\* the first probe succeeded, the next one is in flight, and a status request
\* has been answered with llm.available true meanwhile
C20_Witness ==
    /\ llm_client
    /\ last_probe = "success"
    /\ rpc = "probe"
    /\ \E c \in Conns :
          /\ conn[c].req.method = "status"
          /\ conn[c].pc = "write"
          /\ conn[c].resp.data[1].llm_available

\* ---- several connections at once ----

ServeConns == 1..MaxServed

\* The agent with a collaborator and one stored event, serving MaxServed
\* connections; the collectors make no event meanwhile.
ServeInit ==
    /\ metrics = [cpu_usage |-> 0, memory_used_mb |-> 0, memory_total_mb |-> 0,
                  memory_percent |-> 0]
    /\ high_cpu_count = 0
    /\ spc = [s \in Samplers |-> "sleep"]
    /\ pending = [s \in Samplers |-> NoEvent]
    /\ nticks = [s \in Samplers |-> 0]
    /\ created = [s \in Samplers |-> 0]
    /\ run = [s \in Samplers |-> 0]
    /\ sent = 0
    /\ chan = <<>>
    /\ llm_client = TRUE
    /\ apc = "recv"
    /\ cur = NoEvent
    /\ rcvd = NoEvent
    /\ attempted = "no"
    /\ db = <<StoredAt(1, 0)>>
    /\ dropped = {}
    /\ clock = 0
    /\ mpc = "running"
    /\ conn = [c \in ServeConns |-> FreeConn("none")]
    /\ cache = FALSE
    /\ rpc = "probe"
    /\ last_probe = "none"
    /\ interval = <<>>
    /\ probed = IF llm_client THEN <<clock>> ELSE <<>>

ServeNext == HandlersOn(ServeConns, IpcRequests) \/ AcceptErr

ServeSpec == ServeInit /\ [][ServeNext]_vars

\* ---- C21 ----
\* the next step of the connection slot c: its accept, its read of a status
\* request, or the step of its handler
C21_NextStep(c) ==
    \/ Accept(c)
    \/ Read(c, RawRequest("json", "status", <<>>, NoId))
    \/ C11_HandlerStep(c)

\* C21: while handlers are suspended in the enrichment call of an analyze, in
\* whatever number, every other connection can take its next step: it can be
\* accepted, its request read, its status, list or show handled and its
\* response written. A handler in the call is not held up by the others
\* either.
C21_NoHandlerBlocksAnother ==
    \A c \in DOMAIN conn :
        /\ (\E d \in DOMAIN conn \ {c} : conn[d].pc = "llm")
              => /\ ENABLED C21_NextStep(c)
                 /\ conn[c].pc = "free" => ENABLED Accept(c)
                 /\ conn[c].pc = "read"
                       => ENABLED Read(c, RawRequest("json", "status", <<>>, NoId))
                 /\ conn[c].pc \notin {"free", "read"} => ENABLED C11_HandlerStep(c)
        /\ conn[c].pc = "llm" => ENABLED AnalyzeOk(c) /\ ENABLED AnalyzeErr(c)

\* one handler is in its enrichment call and a status request on another
\* connection has its response
C21_Witness ==
    \E c, d \in DOMAIN conn :
        /\ c # d
        /\ conn[d].pc = "llm"
        /\ conn[c].pc = "write"
        /\ conn[c].req.method = "status"
        /\ conn[c].resp.success

\* ---- C24 ----
\* C24: however the handlers of earlier connections ended (with a response,
\* or with an error of their read or write) and whatever errors the running
\* handlers have met, the accept loop is at its accept: a failed accept is
\* taken in its stride, every free slot can be accepted on, and the
\* connection accepted after a failure is served like any other (its request
\* can be read, and its handler can take each of its steps up to the write).
C24_AcceptLoopSurvives ==
    /\ ENABLED AcceptErr
    /\ \A c \in DOMAIN conn :
          /\ conn[c].last \in C11_Ends \cup {"none"}
          /\ conn[c].pc = "free" => ENABLED Accept(c)
          /\ conn[c].pc = "read"
                => \A raw \in IpcRequests : ENABLED Read(c, raw)
          /\ conn[c].pc \notin {"free", "read"} => ENABLED C11_HandlerStep(c)

\* a connection has been accepted after the handler before it failed in its
\* write, while the handler of another connection holds the response to a
\* failed store query
C24_Witness ==
    \E c, d \in DOMAIN conn :
        /\ conn[c].pc = "read"
        /\ conn[c].last = "write_error"
        /\ conn[d].pc = "write"
        /\ conn[d].lookup = "error"

\* ---- the collectors against the clock, with a tick interval of 0 ----

\* The wall clock moves on by a millisecond.
Elapse ==
    /\ clock < MaxMillis
    /\ clock' = clock + 1
    /\ UNCHANGED <<mpc, conn, refresherVars, pipelineVars>>

\* With cpu_interval = 0 the memory loop sleeps for Duration::from_secs(0)
\* between its iterations, so an iteration starts in whatever millisecond the
\* clock shows, the one of the iteration before included. (The CPU loop
\* sleeps at least 1.25 s in every iteration and its ids have their own
\* prefix; it is left at rest here.)
ClockNext ==
    \/ Elapse
    \/ \E v \in MemReadings : MemTick(v, clock)
    \/ \E s \in Samplers : Send(s)
    \/ Recv
    \/ EnrichOk
    \/ EnrichErr
    \/ StoreOk
    \/ StoreErr

ClockSpec == Init /\ [][ClockNext]_vars

\* ---- C22 ----
\* the ids of the events that exist: in a collector's hand, queued, with the
\* analyzer, stored
C22_LiveIds ==
    [i \in 1..Len(chan) |-> chan[i].event_id]
    \o [i \in 1..Len(db) |-> db[i].event_id]
    \o (IF cur = NoEvent THEN <<>> ELSE <<cur.event_id>>)
    \o (IF pending["cpu"] = NoEvent THEN <<>> ELSE <<pending["cpu"].event_id>>)
    \o (IF pending["mem"] = NoEvent THEN <<>> ELSE <<pending["mem"].event_id>>)

\* C22: no two events have the same event_id.
C22_UniqueIds ==
    \A i, j \in 1..Len(C22_LiveIds) : i # j => C22_LiveIds[i] # C22_LiveIds[j]

\* ---- main.rs: the interrupt ----

\* signal::ctrl_c().await returns and main returns Ok(()): the runtime is
\* dropped and with it every spawned task, at the await it is suspended in.
\* Nothing is signalled to the tasks and none is awaited. A connection whose
\* handler is dropped is closed by the exit without a response.
Interrupt ==
    /\ mpc = "running"
    /\ mpc' = "exited"
    /\ conn' = [c \in DOMAIN conn |->
                  IF conn[c].pc = "free" THEN conn[c] ELSE FreeConn("cancelled")]
    /\ rpc' = "off"
    /\ spc' = [s \in Samplers |-> "dead"]
    /\ pending' = [s \in Samplers |-> NoEvent]
    /\ apc' = "stopped"
    /\ UNCHANGED <<clock, cache, last_probe, interval, probed, metrics, high_cpu_count, nticks, created, run,
                   sent, chan, llm_client, cur, rcvd, attempted, db, dropped>>

\* the control plane and the refresher until the interrupt
ShutdownNext ==
    \/ mpc = "running" /\ HandlersOn(ServeConns, IpcRequests)
    \/ mpc = "running" /\ Refresher
    \/ Interrupt

ShutdownSpec == ServeInit /\ [][ShutdownNext]_vars

\* ---- C23 ----
\* C23: once the process has exited, no connection has been accepted after
\* the signal, and every handler that was in flight at the signal has run to
\* its end: none was cut off before its response.
C23_InFlightHandlersFinish ==
    mpc = "exited"
        => \A c \in DOMAIN conn :
              /\ conn[c].pc = "free"
              /\ conn[c].last # "cancelled"

\* ---- status next to the running pipeline ----

\* readings while status is served: for each collector one above critical and
\* one that makes no event on its own (in the CPU's warning band, at the
\* memory's warning threshold)
StatusCpuReadings == {85, 97}
StatusMemReadings == {85, 97}

StatusRequest == RawRequest("json", "status", <<>>, NoId)

\* ticks of both collectors together while status is served: one more than
\* the channel holds, so that a collector can be suspended in a send
MaxStatusTicks == 3

StatusTicksLeft == nticks["cpu"] + nticks["mem"] < MaxStatusTicks

\* the client of the status requests
StatusConns == {1}

StatusNext ==
    \/ \E v \in StatusCpuReadings : StatusTicksLeft /\ CpuSample(v)
    \/ \E v \in StatusMemReadings : StatusTicksLeft /\ MemSample(v)
    \/ \E s \in Samplers : Send(s)
    \/ Recv
    \/ EnrichOk
    \/ EnrichErr
    \/ StoreOk
    \/ StoreErr
    \/ \E c \in StatusConns : Accept(c)
    \/ \E c \in StatusConns : Read(c, StatusRequest)
    \/ \E c \in StatusConns, ok \in BOOLEAN : StatusCounts(c, ok)
    \/ \E c \in StatusConns : StatusRespond(c)
    \/ \E c \in StatusConns, ok \in BOOLEAN : Write(c, ok)

StatusSpec == Init /\ [][StatusNext]_vars

\* ---- C25 ----

\* C25: a status response reports, for each severity, the number of open
\* events of that severity in the store at the time the handler queried the
\* store: every step of handle_status that leaves one of its three COUNT
\* queries behind carries that query's count of the store of that moment in
\* the response under construction, and the response that is written keeps
\* those counts next to the metrics read and the cached flag.  Events in the
\* channel or with the analyzer are not in the store and are not counted.
C25_CountsFromStore ==
    [][\A c \in DOMAIN conn :
          /\ \A k \in 1..3 :
                (conn[c].pc = CountPcs[k] /\ conn[c].req.method = "status"
                                          /\ conn'[c].pc # conn[c].pc)
                    => conn'[c].resp.data[1][k] = CountOpen(CountSeverities[k])
          /\ (conn[c].pc = "status" /\ conn'[c].pc = "write")
                => /\ conn'[c].resp.data[1].events = conn[c].resp.data[1]
                   /\ conn'[c].resp.data[1].metrics = metrics
                   /\ conn'[c].resp.data[1].llm_available = LlmAvailable]_vars

\* ---- C26 ----

\* What a collector gets when the refresh of its resource fails. refresh_cpu
\* and refresh_memory return nothing and the accessors return plain numbers,
\* so the loop sees no failure: it sees the fields the library is left with,
\* zeroed or those of the last refresh that worked, and treats them as the
\* reading of the tick. (With total and used both zero the memory percentage
\* is 0/0, which passes no threshold, as 0 does.)
FailedReads(old) == {0, old}

\* The ticks of a collector whose read has failed.
CpuReadFails == \E v \in FailedReads(metrics.cpu_usage) : CpuSample(v)

MemReadFails == \E v \in FailedReads(metrics.memory_percent) : MemSample(v)

\* C26: when a collector's resource read fails on a tick, no event is emitted
\* for the tick and the metrics keep the previous reading: whenever a
\* collector is about to tick, the tick of a failed read can go by with the
\* collector's reading in the metrics and the number of events created both
\* unchanged.
C26_FailedReadIsQuiet ==
    /\ ENABLED (\E v \in CpuReadings : CpuSample(v))
          => ENABLED (/\ CpuReadFails
                      /\ metrics'.cpu_usage = metrics.cpu_usage
                      /\ created' = created)
    /\ ENABLED (\E v \in MemReadings : MemSample(v))
          => ENABLED (/\ MemReadFails
                      /\ metrics'.memory_percent = metrics.memory_percent
                      /\ metrics'.memory_used_mb = metrics.memory_used_mb
                      /\ created' = created)

\* ---- C27 ----

AnalyzeRequests == {RawRequest("json", "analyze", <<>>, id) : id \in Ids}

\* The pipeline with an analyze client next to it.
LiveNext ==
    \/ \E v \in IpcCpuReadings : StatusTicksLeft /\ CpuSample(v)
    \/ \E v \in IpcMemReadings : StatusTicksLeft /\ MemSample(v)
    \/ \E s \in Samplers : Send(s)
    \/ Recv
    \/ EnrichOk
    \/ EnrichErr
    \/ StoreOk
    \/ StoreErr
    \/ \E c \in StatusConns : Accept(c)
    \/ \E c \in StatusConns, raw \in AnalyzeRequests : Read(c, raw)
    \/ \E c \in StatusConns, ok \in BOOLEAN : AnalyzeLookup(c, ok)
    \/ \E c \in StatusConns : AnalyzeOk(c)
    \/ \E c \in StatusConns : AnalyzeErr(c)
    \/ \E c \in StatusConns, ok \in BOOLEAN : Write(c, ok)

\* The scheduler runs every ready task. The enrichment call of the analyzer
\* and of a handler returns Ok or Err within the 30 s timeout of the HTTP
\* client; the insert into the local store returns Ok or Err.
LiveSpec ==
    /\ Init
    /\ [][LiveNext]_vars
    /\ \A s \in Samplers : WF_vars(Send(s))
    /\ WF_vars(Recv)
    /\ WF_vars(EnrichOk \/ EnrichErr)
    /\ WF_vars(StoreOk \/ StoreErr)
    /\ \A c \in StatusConns : WF_vars(AnalyzeOk(c) \/ AnalyzeErr(c))

C27_EventIds == {<<s, n>> : s \in Samplers, n \in 1..MaxStatusTicks}

C27_InChan(id) == \E i \in 1..Len(chan) : chan[i].event_id = id

\* the store inserts attempted for the event so far, failed ones included
C27_Attempts(id) ==
    Cardinality({i \in 1..Len(db) : db[i].event_id = id})
        + (IF id \in dropped THEN 1 ELSE 0)

C28_HasEvent(s) ==
    \/ pending[s] # NoEvent
    \/ \E i \in 1..Len(chan) : chan[i].event_id[1] = s
    \/ cur.event_id[1] = s
    \/ \E i \in 1..Len(db) : db[i].event_id[1] = s

\* C28: on every tick a collector writes its reading to the metrics before it
\* looks at the thresholds or sends, whether or not the tick produces an
\* event. After each tick the reading in the metrics is the one the tick's
\* branch was taken on: above critical exactly when the tick emitted a
\* CRITICAL event, in the warning band exactly when the run of warning-band
\* readings went on, and a collector suspended in its send has the reading of
\* the pending event in the metrics. Hence whenever an event of a collector
\* exists anywhere, the metrics hold a reading of that collector, no longer
\* the zero default.
C28_MetricsBeforeEvent ==
    /\ [][\A s \in Samplers : Tick(s) =>
             /\ (Reading(s)' > Critical(s))
                   <=> (Emits(s) /\ pending'[s].severity = "CRITICAL")
             /\ InBand(s, Reading(s)') <=> (run'[s] = run[s] + 1)
             /\ Reading(s)' # 0]_vars
    /\ [](\A s \in Samplers :
             /\ spc[s] = "send" =>
                   (pending[s].severity = "CRITICAL" <=> Reading(s) > Critical(s))
             /\ C28_HasEvent(s) => Reading(s) # 0)

\* a CPU tick that produced no event has left its reading in the metrics
\* while an event of the memory collector is in the store
C28_Witness ==
    /\ nticks["cpu"] = 1
    /\ created["cpu"] = 0
    /\ metrics.cpu_usage = 85
    /\ \E i \in 1..Len(db) : db[i].event_id[1] = "mem"

\* ---- C29 ----

C29_SlowClient ==
    /\ \E c \in StatusConns : conn[c].pc = "write" /\ conn[c].req.method = "status"
    /\ \E s \in Samplers : spc[s] = "sleep"
    /\ StatusTicksLeft

\* ---- C30 ----

\* the three memory fields come from one tick of the memory collector (of a
\* total of 100 MB the used amount is the percentage), or from none
C30_OneMemoryTick(m) ==
    \/ m.memory_used_mb = 0 /\ m.memory_total_mb = 0 /\ m.memory_percent = 0
    \/ m.memory_total_mb = 100 /\ m.memory_used_mb = m.memory_percent

\* C30: the metrics of a status response are a consistent snapshot under
\* last-writer-wins. The three memory fields of the metrics always come from
\* one memory tick and the CPU field is the reading of the latest CPU tick (in
\* the warning band exactly when the run of warning-band readings is on);
\* the handler copies all four fields in one step, so its response shows the
\* metrics of one instant, and no partly applied write.
C30_ConsistentSnapshot ==
    /\ [](/\ C30_OneMemoryTick(metrics)
          /\ InBand("cpu", metrics.cpu_usage) <=> run["cpu"] > 0)
    /\ [](\A c \in StatusConns :
             (conn[c].pc = "write" /\ conn[c].req.method = "status")
                => C30_OneMemoryTick(conn[c].resp.data[1].metrics))
    /\ [][\A c \in StatusConns :
             (conn[c].pc = "status" /\ conn'[c].pc = "write")
                => conn'[c].resp.data[1].metrics = metrics]_vars

\* a status response about to be written shows the second memory tick, which
\* overwrote the first, next to the reading of a CPU tick
C30_Witness ==
    \E c \in StatusConns :
        /\ conn[c].pc = "write"
        /\ conn[c].req.method = "status"
        /\ nticks["mem"] = 2
        /\ conn[c].resp.data[1].metrics.memory_percent = 97
        /\ conn[c].resp.data[1].metrics.memory_used_mb = 97
        /\ conn[c].resp.data[1].metrics.cpu_usage = 85

\* ---- C31 ----

\* the row carries a suggestion document after the entity and the evidence
C31_RowHasSuggestion(row) == Len(row.snapshot) = 3

\* C31: an event has no suggestion when it is created and while it is in the
\* channel; the suggestion of the event in the analyzer's hands is set only by
\* the step in which an enrichment call for it returns Ok, from absent to
\* present and never again; and the row of an event carries a suggestion
\* exactly when the call for the event succeeded, so WARNING events, and
\* CRITICAL events whose call failed or was not made, are stored without one.
C31_SuggestionOnlyFromEnrichment ==
    /\ [](/\ \A s \in Samplers : pending[s].suggestion = "None"
          /\ \A i \in 1..Len(chan) : chan[i].suggestion = "None"
          /\ cur.suggestion = "Some"
                => (attempted = "ok" /\ cur.severity = "CRITICAL" /\ llm_client))
    /\ [][(cur'.suggestion = "Some" /\ cur.suggestion = "None")
             => (apc = "enrich" /\ attempted = "no" /\ attempted' = "ok"
                 /\ cur'.event_id = cur.event_id)]_vars
    /\ [][cur.suggestion = "Some"
             => (cur' = cur \/ cur' = NoEvent \/ cur'.suggestion = "None")]_vars
    /\ [][Len(db') = Len(db) + 1
             => /\ C31_RowHasSuggestion(db'[Len(db')]) <=> attempted = "ok"
                /\ (cur.severity # "CRITICAL" \/ ~llm_client \/ attempted = "err")
                      => ~C31_RowHasSuggestion(db'[Len(db')])]_vars

\* the store holds an enriched CRITICAL row, a CRITICAL row whose call failed
\* and a WARNING row
C31_Witness ==
    /\ \E i \in 1..Len(db) : db[i].severity = "CRITICAL" /\ C31_RowHasSuggestion(db[i])
    /\ \E i \in 1..Len(db) : db[i].severity = "CRITICAL" /\ ~C31_RowHasSuggestion(db[i])
    /\ \E i \in 1..Len(db) : db[i].severity = "WARNING" /\ ~C31_RowHasSuggestion(db[i])

\* ---- the availability refresher against the clock ----

\* tokio::time::Duration::from_secs(30), in milliseconds
ProbePeriod == 30000
\* the timeout of the HTTP client the probes are sent with, in milliseconds
ClientTimeout == 30000
\* periods the refresher is followed for
MaxPeriods == 2

\* the clock moves in thirds of a period
ClockStep == ProbePeriod \div 3

\* Time passes: not beyond the client timeout while a probe is in flight, and
\* not while a tick of the interval is due (the runtime wakes the task).
RefreshElapse ==
    /\ clock + ClockStep <= MaxPeriods * ProbePeriod
    /\ rpc = "probe" => clock + ClockStep - probed[Len(probed)] <= ClientTimeout
    /\ rpc = "tick" => clock < interval[1]
    /\ clock' = clock + ClockStep
    /\ UNCHANGED <<mpc, conn, refresherVars, pipelineVars>>

\* The probe in flight returns and its result is stored. After the first
\* probe the task makes its Interval: tokio::time::interval(period) is due for
\* its first tick at the instant it is made.
ProbeDoneAt(outcome) ==
    /\ rpc = "probe"
    /\ cache' = CacheAfterProbe(cache, outcome)
    /\ last_probe' = outcome
    /\ interval' = IF interval = <<>> THEN <<clock>> ELSE interval
    /\ rpc' = "tick"
    /\ UNCHANGED <<probed, mainVars, conn, pipelineVars>>

\* interval.tick().await returns once the tick is due, and the next probe is
\* sent; the tick after it is due one period after this one was (ticks that
\* were missed are caught up with).
ProbeStartAt ==
    /\ rpc = "tick"
    /\ interval[1] <= clock
    /\ rpc' = "probe"
    /\ interval' = <<interval[1] + ProbePeriod>>
    /\ probed' = Append(probed, clock)
    /\ UNCHANGED <<cache, last_probe, mainVars, conn, pipelineVars>>

RefreshNext ==
    \/ RefreshElapse
    \/ \E o \in ProbeOutcomes : ProbeDoneAt(o)
    \/ ProbeStartAt

RefreshSpec == Init /\ [][RefreshNext]_vars

\* ---- C32 ----

\* C32: with a collaborator configured the refresher issues one probe at
\* start and after that one probe per period: between two probes that follow
\* each other, the second after the first included, a full period has elapsed,
\* and the refresher never terminates.
C32_OneProbePerPeriod ==
    /\ llm_client => (Len(probed) >= 1 /\ probed[1] = 0 /\ rpc \in {"probe", "tick"})
    /\ \A i \in 2..Len(probed) : probed[i] - probed[i - 1] >= ProbePeriod

\* ---- C33 ----

\* C33: the four control-plane operations are read-only with respect to the
\* agent's state: no step of a handler (a step that moves a connection on
\* while the process runs) changes the store, the metrics or the availability
\* cache; in particular a successful analyze leaves the stored
\* event as it was, so the lookup a show makes for any id gives the same row
\* before and after.
C33_OperationsReadOnly ==
    [][(conn' # conn /\ mpc' = mpc)
          => /\ db' = db
             /\ dropped' = dropped
             /\ metrics' = metrics
             /\ cache' = cache
             /\ \A id \in Ids : get_event_by_id(id)' = get_event_by_id(id)]_vars

\* one handler has its suggestion from a successful analyze of a stored event
\* while another answers a show of the same event with the row as stored
C33_Witness ==
    \E c, d \in DOMAIN conn :
        /\ conn[c].pc = "write"
        /\ conn[c].req.method = "analyze"
        /\ conn[c].call = "ok"
        /\ conn[d].pc = "write"
        /\ conn[d].req.method = "show"
        /\ conn[d].req.event_id = conn[c].req.event_id
        /\ conn[d].resp = Success(<<ShowData(StoredAt(1, 0))>>)

\* ---- main.rs: the probe at process start, then the pipeline ----

\* Faulty variant of StartupClient (mutation for C34): the client is handed to
\* the analyzer whatever the probe said.
StartupClient_Always(outcome) == TRUE

\* llm_available: Some(llm_client) when test_connection returned Ok(true),
\* None when it returned Ok(false) or Err
StartupClient(outcome) == test_connection(outcome)

\* main before its probe: nothing is started, no client is handed out yet
StartInit ==
    /\ metrics = [cpu_usage |-> 0, memory_used_mb |-> 0, memory_total_mb |-> 0,
                  memory_percent |-> 0]
    /\ high_cpu_count = 0
    /\ spc = [s \in Samplers |-> "sleep"]
    /\ pending = [s \in Samplers |-> NoEvent]
    /\ nticks = [s \in Samplers |-> 0]
    /\ created = [s \in Samplers |-> 0]
    /\ run = [s \in Samplers |-> 0]
    /\ sent = 0
    /\ chan = <<>>
    /\ llm_client = FALSE
    /\ apc = "recv"
    /\ cur = NoEvent
    /\ rcvd = NoEvent
    /\ attempted = "no"
    /\ db = <<>>
    /\ dropped = {}
    /\ clock = 0
    /\ mpc = "starting"
    /\ conn = [c \in Conns |-> FreeConn("none")]
    /\ cache = FALSE
    /\ rpc = "off"
    /\ last_probe = "none"
    /\ interval = <<>>
    /\ probed = <<>>

\* main's test_connection returns; the collectors and the analyzer are
\* started, the analyzer with llm_available. (The refresher, which makes
\* probes of its own, is left out here: last_probe stays the outcome of
\* main's probe.)
Startup(outcome) ==
    /\ mpc = "starting"
    /\ mpc' = "running"
    /\ last_probe' = outcome
    /\ llm_client' = StartupClient(outcome)
    /\ UNCHANGED <<clock, conn, cache, rpc, interval, probed, samplerVars, chan,
                   apc, cur, rcvd, attempted, db, dropped>>

StartNext ==
    \/ \E o \in ProbeOutcomes : Startup(o)
    \/ \E v \in StatusCpuReadings : mpc = "running" /\ StatusTicksLeft /\ CpuSample(v)
    \/ \E v \in StatusMemReadings : mpc = "running" /\ StatusTicksLeft /\ MemSample(v)
    \/ \E s \in Samplers : Send(s)
    \/ Recv
    \/ EnrichOk
    \/ EnrichErr
    \/ StoreOk
    \/ StoreErr

StartSpec == StartInit /\ [][StartNext]_vars

\* ---- C34 ----

\* C34: whether the pipeline enriches is decided once, by the probe made at
\* process start. The analyzer has a collaborator exactly if that probe
\* succeeded, and this never changes afterwards. If the probe failed, the
\* analyzer never makes an enrichment call and no row ever carries a
\* suggestion; if it succeeded, every CRITICAL event the analyzer receives
\* goes into an enrichment call, also after calls that failed.
C34_DecidedAtStart ==
    /\ [](mpc = "running" => (llm_client <=> last_probe = "success"))
    /\ [][mpc = "running" => llm_client' = llm_client]_vars
    /\ [](last_probe # "success"
             => /\ apc # "enrich"
                /\ attempted = "no"
                /\ \A i \in 1..Len(db) : Len(db[i].snapshot) = 2)
    /\ [][(last_probe = "success" /\ apc = "recv" /\ cur' # cur
                                  /\ cur'.severity = "CRITICAL")
             => apc' = "enrich"]_vars

\* after a successful probe at start the analyzer is inside a call for a
\* CRITICAL event although the call for the CRITICAL event before it failed
C34_Witness ==
    /\ last_probe = "success"
    /\ apc = "enrich"
    /\ \E i \in 1..Len(db) : db[i].severity = "CRITICAL" /\ Len(db[i].snapshot) = 2

\* after a failed probe at start a CRITICAL event went to the store with no call
C34_WitnessUnreachable ==
    /\ last_probe = "net_error"
    /\ \E i \in 1..Len(db) : db[i].severity = "CRITICAL"

\* ---- C35 ----

C36_Stored(sev) == Cardinality({i \in 1..Len(db) : db[i].severity = sev})

\* the store holds open rows only, and a step leaves it alone or appends a row
C36_StoreGrowsOpen ==
    /\ [](\A i \in 1..Len(db) : db[i].status = "open")
    /\ [][db' = db \/ (Len(db') = Len(db) + 1 /\ SubSeq(db', 1, Len(db)) = db)]_vars
    /\ [](\A sev \in {"CRITICAL", "WARNING", "INFO"} : CountOpen(sev) = C36_Stored(sev))
    /\ [][\A sev \in {"CRITICAL", "WARNING", "INFO"} : CountOpen(sev)' >= CountOpen(sev)]_vars

C37_StatusHidesStoreFailure ==
    \A c \in DOMAIN conn :
        conn[c].pc = "write" =>
            /\ conn[c].req.method = "status"
                  => /\ conn[c].resp.success
                     /\ conn[c].lookup = "error"
                           => conn[c].resp.data[1].events = <<0, 0, 0>>
            /\ (conn[c].req.method \in {"list", "show", "analyze"}
                   /\ conn[c].lookup = "error")
                  => /\ ~conn[c].resp.success
                     /\ conn[c].resp.error
                           = (IF conn[c].req.method = "list"
                              THEN "Failed to fetch events" ELSE "Database error")

\* a status response about to be written reports no events after a failed
\* count query while the store holds an event
C37_Witness ==
    \E c \in DOMAIN conn :
        /\ conn[c].pc = "write"
        /\ conn[c].req.method = "status"
        /\ conn[c].lookup = "error"
        /\ conn[c].resp.success
        /\ db # <<>>

\* ---- the CPU collector's counter over its whole range ----

\* the values of the counter
CounterValues == 0..(CounterModulus - 1)

\* The collectors with the CPU collector's counter at any of its values, as a
\* run of that many warning-band readings leaves it.
CounterInit ==
    /\ metrics = [cpu_usage |-> 0, memory_used_mb |-> 0, memory_total_mb |-> 0,
                  memory_percent |-> 0]
    /\ high_cpu_count \in CounterValues
    /\ spc = [s \in Samplers |-> "sleep"]
    /\ pending = [s \in Samplers |-> NoEvent]
    /\ nticks = [s \in Samplers |-> 0]
    /\ created = [s \in Samplers |-> 0]
    /\ run = [s \in Samplers |-> IF s = "cpu" THEN high_cpu_count ELSE 0]
    /\ sent = 0
    /\ chan = <<>>
    /\ llm_client = FALSE
    /\ apc = "recv"
    /\ cur = NoEvent
    /\ rcvd = NoEvent
    /\ attempted = "no"
    /\ db = <<>>
    /\ dropped = {}
    /\ clock = 0
    /\ mpc = "running"
    /\ conn = [c \in Conns |-> FreeConn("none")]
    /\ cache = FALSE
    /\ rpc = "off"
    /\ last_probe = "none"
    /\ interval = <<>>
    /\ probed = <<>>

\* high_cpu_count += 1 with the counter at its greatest value, in a build with
\* overflow checks (the default of a debug build): the addition panics and the
\* collector task ends, after it has written the metrics. In a build without
\* them the addition wraps around (CpuTick).
CpuOverflowPanic(v) ==
    /\ spc["cpu"] = "sleep"
    /\ TicksLeft
    /\ InBand("cpu", v)
    /\ high_cpu_count = CounterModulus - 1
    /\ nticks' = [nticks EXCEPT !["cpu"] = @ + 1]
    /\ metrics' = CpuMetrics(metrics, v)
    /\ run' = [run EXCEPT !["cpu"] = RunAfter("cpu", v, @)]
    /\ spc' = [spc EXCEPT !["cpu"] = "dead"]
    /\ UNCHANGED <<high_cpu_count, pending, created, sent, chan, analyzerVars, ipcVars>>

CounterNext ==
    \/ \E v \in CpuReadings : CpuSample(v)
    \/ \E v \in CpuReadings : CpuOverflowPanic(v)
    \/ Send("cpu")
    \/ Recv
    \/ StoreOk
    \/ StoreErr

CounterSpec == CounterInit /\ [][CounterNext]_vars

\* ---- C38 ----

\* C38: at the end of every tick the CPU collector's counter is the number of
\* the latest consecutive ticks with a reading in the warning band (0 when
\* the latest reading was critical or at or below warning); on a tick with a
\* reading in the band the counter goes up by one and, once it has reached
\* cpu_sustained_count, does not fall below it, for runs of any length; the
\* collector goes on ticking.
C38_CounterIsRunLength ==
    /\ [](spc["cpu"] = "sleep" => high_cpu_count = run["cpu"])
    /\ [][(Tick("cpu") /\ InBand("cpu", Reading("cpu")'))
             => /\ high_cpu_count' = high_cpu_count + 1
                /\ high_cpu_count >= cpu_sustained_count
                      => high_cpu_count' >= cpu_sustained_count
                /\ spc'["cpu"] # "dead"]_vars

====
